---- MODULE Spec2Model ----
(***************************************************************************)
(* ClawBrowser: the tab registry (TabState), the content webviews it      *)
(* places inside the main window, and the operations on them.             *)
(*                                                                         *)
(* Two layers of the source are modelled side by side:                    *)
(*   - src-tauri/src/tabs.rs : the lifecycle operations (create_tab,      *)
(*     close_tab, switch_tab, hide_all_tabs, navigate_tab, run_js_in_tab, *)
(*     reposition_webviews, set_content_bounds);                          *)
(*   - src-tauri/src/ipc.rs  : the #[tauri::command] handlers registered  *)
(*     in lib.rs (create_tab, close_tab, switch_tab, navigate_tab,        *)
(*     run_js_in_tab, list_tabs, get_active_tab), prefixed ipc_ here.     *)
(* Every operation runs with the Mutex<TabState> held from entry to       *)
(* return, so each is one atomic action; the states of a behaviour are    *)
(* the points at which the lock is free.                                  *)
(*                                                                         *)
(* Numbers.  Logical pixels are f64 in the source.  They are kept here as *)
(* integers counting 1/Den of a logical pixel; with Den = 2 and scale    *)
(* factors 1 and 2 every product and quotient the code forms is exact in  *)
(* f64 as well, so the integer arithmetic below is the code's arithmetic. *)
(* Physical pixels are plain integers.                                    *)
(*                                                                         *)
(* Platform calls.  A call whose Result the code inspects (get_window,    *)
(* inner_size, scale_factor, add_child, the set_bounds inside             *)
(* apply_bounds, navigate, eval) gets its outcome from an input of the    *)
(* action.  A call whose Result the code discards with `let _ =` takes    *)
(* effect.  set_auto_resize(false) is issued on every surface as soon as  *)
(* it exists and is never undone, so it carries no state.                 *)
(*                                                                         *)
(* Concurrency.  SpecTabs and SpecLayout take every handler as one step.   *)
(* SpecLock splits an entry point into lock(), its body and the drop of    *)
(* the guard, and runs the watcher loops and surface callbacks next to     *)
(* them.  SpecWatcher has the watcher loop of devtools.rs (the macOS       *)
(* build with devtools) with the inspector the user opens and closes.      *)
(* SpecSidecar has the commands of sidecar.rs, each split at the points    *)
(* where another call can run.                                             *)
(***************************************************************************)
EXTENDS Integers, FiniteSets, Sequences, TLC

\* ------------------------------------------------------------------ bounds
MaxTabs == 2                  \* uuids handed out in one behaviour of SpecTabs
MaxLayoutTabs == 1            \* uuids handed out in one behaviour of SpecLayout
MaxCalls == 3                 \* sidecar commands invoked in one behaviour
MaxLockTabs == 1              \* uuids handed out in one behaviour of SpecLock
MaxThreads == 2               \* threads that run commands and window events
MaxWatchTabs == 1             \* uuids handed out in one behaviour of SpecWatcher
MaxClickTabs == 1             \* uuids handed out in one behaviour of SpecClick

\* --------------------------------------------------------- program constants
AGENT_PANEL_WIDTH == 320
TAB_LIST_WIDTH == 200
NAV_BAR_HEIGHT == 56
OFFSCREEN_XY == -10000

Den == 2                      \* logical values are counted in 1/Den pixel

NoTab == 0                    \* Option::None for a tab id
NoBounds == <<>>              \* Option::None for content_bounds; Some(b) is <<b>>
NoCall == 0                   \* no call holds the lock
NoThread == 0                 \* no thread holds the lock
MainLabel == 0                \* the label "main"; a tab's webview is "tab-<id>"

\* ------------------------------------------------------------------- inputs
Urls == {"", "about:blank", "not a url"}
NavUrls == {"", "about:blank"}

\* url::Url::parse succeeds
UrlParses(u) == u \in {"about:blank", "https://example.com/"}

Scales == {1, 2}
WinSizes == {<<1000, 800>>, <<400, 40>>}

\* ContentBounds reported by the UI, in 1/Den logical pixels
Bounds1 == [left |-> 500 * Den, top |-> 60 * Den, width |-> 480 * Den, height |-> 700 * Den]
Bounds2 == [left |-> -3, top |-> 1, width |-> 600 * Den, height |-> 900 * Den]
BoundsSet == {Bounds1, Bounds2}
\* a report that coincides with the fallback layout of a 1000x800 window
Bounds0 == [left |-> 520 * Den, top |-> 56 * Den, width |-> 480 * Den, height |-> 744 * Den]

VARIABLES
    tabs,              \* TabState.tabs : id -> TabInfo
    active_tab,        \* TabState.active_tab
    content_bounds,    \* TabState.content_bounds
    chrome_y_offset,   \* TabState.chrome_y_offset, in 1/Den logical pixels
    webviews,          \* live child webviews "tab-<id>" : id -> [rect, visible]
    focused,           \* id whose webview got the last set_focus
    inner_size,        \* window.inner_size() = <<width, height>>, physical
    scale,             \* window.scale_factor()
    next_uuid,         \* uuids are never repeated: the next unused one
    last,              \* the call that produced this state and its result
    sidecar,           \* SidecarState : [started, next_id]
    sidecar_lock,      \* the call holding the Mutex<SidecarState>, or NoCall
    calls,             \* the sidecar commands invoked: call -> [cmd, pc, id, res]
    events,            \* the sidecar events emitted so far, in order
    lock_order,        \* the sidecar_send calls in the order they took the lock
    registry_lock,     \* the thread holding the Mutex<TabState>, or NoThread
    thread_pc,         \* thread -> "idle", "locked" (guard held) or "done"
    ui_events,         \* the events a surface callback emitted in the latest step
    watchers,          \* devtools watcher tasks : label -> [pc, was_open]
    inspector,         \* Web Inspector of a surface : label -> closed/docked/detached
    click              \* the latest click event dispatched in a surface's page

tab_vars == <<tabs, active_tab, content_bounds, chrome_y_offset, webviews,
              focused, inner_size, scale, next_uuid, last>>

sidecar_vars == <<sidecar, sidecar_lock, calls, events, lock_order>>

lock_vars == <<registry_lock, thread_pc>>

watcher_vars == <<watchers, inspector>>

page_vars == <<click>>

\* what the tab operations leave alone
aux_vars == <<sidecar_vars, lock_vars, watcher_vars, ui_events, page_vars>>

\* what the sidecar commands leave alone
app_vars == <<tab_vars, lock_vars, watcher_vars, ui_events, page_vars>>

vars == <<tab_vars, aux_vars>>

state_vars == <<tabs, active_tab, content_bounds, chrome_y_offset>>

Max(a, b) == IF a >= b THEN a ELSE b

\* f64::round on v/Den: to the nearest integer, halves away from zero
Round(v) ==
    IF v >= 0 THEN (2 * v + Den) \div (2 * Den)
              ELSE -((2 * (-v) + Den) \div (2 * Den))

\* u32::saturating_sub
saturating_sub(a, b) == IF a >= b THEN a - b ELSE 0

offscreen == [x |-> OFFSCREEN_XY, y |-> OFFSCREEN_XY, w |-> 0, h |-> 0]

\* the Resolver with a plain subtraction where the code saturates
resolve_content_bounds_wrapping(cb, y_off, size, sc) ==
    LET left_logical == IF cb # NoBounds THEN cb[1].left
                        ELSE (AGENT_PANEL_WIDTH + TAB_LIST_WIDTH) * Den
        top_viewport == IF cb # NoBounds THEN cb[1].top ELSE NAV_BAR_HEIGHT * Den
        left_px == Max(Round(left_logical * sc), 0)
        top_px == Max(Round((top_viewport + y_off) * sc), 0)
    IN [x |-> left_px, y |-> top_px, w |-> size[1] - left_px, h |-> size[2] - top_px]

\* content_bounds(window, state): the physical rectangle of a content webview
resolve_content_bounds(cb, y_off, size, sc) ==
    LET left_logical == IF cb # NoBounds THEN cb[1].left
                        ELSE (AGENT_PANEL_WIDTH + TAB_LIST_WIDTH) * Den
        top_viewport == IF cb # NoBounds THEN cb[1].top ELSE NAV_BAR_HEIGHT * Den
        left_px == Max(Round(left_logical * sc), 0)
        top_px == Max(Round((top_viewport + y_off) * sc), 0)
        width_px == saturating_sub(size[1], Max(left_px, 0))
        height_px == saturating_sub(size[2], Max(top_px, 0))
    IN [x |-> left_px, y |-> top_px, w |-> width_px, h |-> height_px]

\* the rectangle the Resolver yields in the current state
resolved == resolve_content_bounds(content_bounds, chrome_y_offset, inner_size, scale)

\* set_bounds(offscreen) and hide() on the webviews of the given ids
park(wv, ids) ==
    [l \in DOMAIN wv |->
        IF l \in ids THEN [rect |-> offscreen, visible |-> FALSE] ELSE wv[l]]

TabInfo(id, url) == [id |-> id, url |-> url, title |-> "New Tab"]

Insert(f, k, v) == [x \in DOMAIN f \cup {k} |-> IF x = k THEN v ELSE f[x]]
Remove(f, k) == [x \in DOMAIN f \ {k} |-> f[x]]

\* the record of a call: its operation, arguments and result, together with
\* what the registry held when it was made
Call(op, id, url, res) ==
    [op |-> op, id |-> id, url |-> url, res |-> res,
     active |-> active_tab, known |-> id \in DOMAIN tabs]

\* a call slot before its command is invoked
NotCalled == [cmd |-> "none", pc |-> "idle", id |-> 0, res |-> "pending"]

\* a watcher task as watch_webview_devtools spawns it
Spawned == [pc |-> "running", was_open |-> FALSE]

\* no click dispatched yet
NoClick ==
    [tab |-> NoTab, phase |-> "none", isMac |-> FALSE, channel |-> "missing",
     event |-> [shiftKey |-> FALSE, metaKey |-> FALSE, defaultPrevented |-> FALSE,
                button |-> 0, target |-> "document", href |-> ""],
     prevented |-> FALSE, stopped |-> FALSE]

\* the state after construction, with the given watcher tasks running
InitApp(ws) ==
    /\ tabs = <<>>
    /\ active_tab = NoTab
    /\ content_bounds = NoBounds
    /\ chrome_y_offset = 0
    /\ webviews = <<>>
    /\ focused = NoTab
    /\ inner_size \in WinSizes
    /\ scale \in Scales
    /\ next_uuid = 1
    /\ last = Call("init", NoTab, "", "ok")
    /\ sidecar = [started |-> FALSE, next_id |-> 1]
    /\ sidecar_lock = NoCall
    /\ calls = [c \in 1..MaxCalls |-> NotCalled]
    /\ events = <<>>
    /\ lock_order = <<>>
    /\ registry_lock = NoThread
    /\ thread_pc = [t \in 1..MaxThreads |-> "idle"]
    /\ ui_events = <<>>
    /\ click = NoClick
    /\ watchers = ws
    /\ inspector = [l \in {MainLabel} |-> "closed"]

\* a build in which watch_webview_devtools is the empty function
Init == InitApp(<<>>)

\* tabs::create_tab
CreateFaults == {"none", "no_window", "layout", "add_child", "apply_bounds"}

create_tab(url, fault) ==
    /\ fault \in {"add_child", "apply_bounds"} =>
            (url = "about:blank" \/ url = "" \/ UrlParses(url))
    /\ LET id == next_uuid
           parked == park(webviews, DOMAIN tabs)
       IN
       IF fault = "no_window" THEN
            /\ last' = Call("create_tab", NoTab, url, "WindowMissing")
            /\ UNCHANGED <<state_vars, webviews, focused, next_uuid>>
       ELSE IF fault = "layout" THEN
            /\ last' = Call("create_tab", NoTab, url, "LayoutError")
            /\ UNCHANGED <<state_vars, webviews, focused, next_uuid>>
       ELSE IF ~(url = "about:blank" \/ url = "") /\ ~UrlParses(url) THEN
            /\ last' = Call("create_tab", NoTab, url, "InvalidUrl")
            /\ UNCHANGED <<state_vars, webviews, focused, next_uuid>>
       ELSE IF fault = "add_child" THEN
            /\ webviews' = parked
            /\ last' = Call("create_tab", NoTab, url, "SurfaceCreateFailed")
            /\ UNCHANGED <<state_vars, focused, next_uuid>>
       ELSE IF fault = "apply_bounds" THEN
            /\ webviews' = Insert(parked, id, [rect |-> resolved, visible |-> TRUE])
            /\ next_uuid' = next_uuid + 1
            /\ last' = Call("create_tab", NoTab, url, "SurfaceOpFailed")
            /\ UNCHANGED <<state_vars, focused>>
       ELSE
            /\ webviews' = Insert(parked, id, [rect |-> resolved, visible |-> TRUE])
            /\ focused' = id
            /\ tabs' = Insert(tabs, id, TabInfo(id, url))
            /\ active_tab' = id
            /\ next_uuid' = next_uuid + 1
            /\ last' = Call("create_tab", id, url, "ok")
            /\ UNCHANGED <<content_bounds, chrome_y_offset>>
    /\ UNCHANGED <<inner_size, scale>>

\* close_tab without the re-election of lines 453-463: active_tab keeps the
\* id of the closed tab
close_tab_no_election(tab_id, elected) ==
    /\ elected = NoTab
    /\ tabs' = Remove(tabs, tab_id)
    /\ webviews' = IF tab_id \in DOMAIN webviews THEN Remove(webviews, tab_id)
                   ELSE webviews
    /\ last' = Call("close_tab", tab_id, "", "ok")
    /\ UNCHANGED <<active_tab, focused, content_bounds, chrome_y_offset,
                   inner_size, scale, next_uuid>>

\* close_tab that clears active_tab instead of electing a remaining tab
close_tab_clear_active(tab_id, elected) ==
    /\ elected = NoTab
    /\ tabs' = Remove(tabs, tab_id)
    /\ webviews' = IF tab_id \in DOMAIN webviews THEN Remove(webviews, tab_id)
                   ELSE webviews
    /\ active_tab' = IF active_tab = tab_id THEN NoTab ELSE active_tab
    /\ last' = Call("close_tab", tab_id, "", "ok")
    /\ UNCHANGED <<focused, content_bounds, chrome_y_offset,
                   inner_size, scale, next_uuid>>

\* close_tab that resets active_tab on every call and elects a new active
\* tab only when the closed tab was the active one
close_tab_reset_active(tab_id, elected) ==
    LET closed == IF tab_id \in DOMAIN webviews THEN Remove(webviews, tab_id)
                  ELSE webviews
        remaining == Remove(tabs, tab_id)
    IN
    /\ tabs' = remaining
    /\ IF active_tab = tab_id THEN
            /\ IF DOMAIN remaining = {} THEN elected = NoTab
                                        ELSE elected \in DOMAIN remaining
            /\ active_tab' = elected
            /\ IF elected # NoTab /\ elected \in DOMAIN closed THEN
                    /\ webviews' = [closed EXCEPT ![elected].visible = TRUE]
                    /\ focused' = elected
               ELSE /\ webviews' = closed
                    /\ UNCHANGED focused
       ELSE /\ elected = NoTab
            /\ active_tab' = NoTab
            /\ webviews' = closed
            /\ UNCHANGED focused
    /\ last' = Call("close_tab", tab_id, "", "ok")
    /\ UNCHANGED <<content_bounds, chrome_y_offset, inner_size, scale, next_uuid>>

\* close_tab that parks the surfaces of the remaining tabs when the closed
\* tab was not the active one
close_tab_parks_others(tab_id, elected) ==
    LET closed == IF tab_id \in DOMAIN webviews THEN Remove(webviews, tab_id)
                  ELSE webviews
        remaining == Remove(tabs, tab_id)
    IN
    /\ tabs' = remaining
    /\ IF active_tab = tab_id THEN
            /\ IF DOMAIN remaining = {} THEN elected = NoTab
                                        ELSE elected \in DOMAIN remaining
            /\ active_tab' = elected
            /\ IF elected # NoTab /\ elected \in DOMAIN closed THEN
                    /\ webviews' = [closed EXCEPT ![elected].visible = TRUE]
                    /\ focused' = elected
               ELSE /\ webviews' = closed
                    /\ UNCHANGED focused
       ELSE /\ elected = NoTab
            /\ webviews' = park(closed, DOMAIN remaining)
            /\ UNCHANGED <<active_tab, focused>>
    /\ last' = Call("close_tab", tab_id, "", "ok")
    /\ UNCHANGED <<content_bounds, chrome_y_offset, inner_size, scale, next_uuid>>

\* tabs::close_tab; `elected` is what state.tabs.keys().next() yields
close_tab(tab_id, elected) ==
    LET closed == IF tab_id \in DOMAIN webviews THEN Remove(webviews, tab_id)
                  ELSE webviews
        remaining == Remove(tabs, tab_id)
    IN
    /\ tabs' = remaining
    /\ IF active_tab = tab_id THEN
            /\ IF DOMAIN remaining = {} THEN elected = NoTab
                                        ELSE elected \in DOMAIN remaining
            /\ active_tab' = elected
            /\ IF elected # NoTab /\ elected \in DOMAIN closed THEN
                    /\ webviews' = [closed EXCEPT ![elected].visible = TRUE]
                    /\ focused' = elected
               ELSE /\ webviews' = closed
                    /\ UNCHANGED focused
       ELSE /\ elected = NoTab
            /\ webviews' = closed
            /\ UNCHANGED <<active_tab, focused>>
    /\ last' = Call("close_tab", tab_id, "", "ok")
    /\ UNCHANGED <<content_bounds, chrome_y_offset, inner_size, scale, next_uuid>>

\* tabs::switch_tab; `win` is whether app.get_window("main") is Some
switch_tab(tab_id, win) ==
    /\ ~win => (tab_id \in DOMAIN tabs /\ tab_id \in DOMAIN webviews)
    /\ IF tab_id \notin DOMAIN tabs THEN
            /\ last' = Call("switch_tab", tab_id, "", "NotFound")
            /\ UNCHANGED <<state_vars, webviews, focused>>
       ELSE
            LET parked == park(webviews, DOMAIN tabs \ {tab_id}) IN
            /\ IF tab_id \in DOMAIN webviews THEN
                    /\ webviews' = [parked EXCEPT
                            ![tab_id] = [rect |-> IF win THEN resolved ELSE @.rect,
                                         visible |-> TRUE]]
                    /\ focused' = tab_id
               ELSE /\ webviews' = parked
                    /\ UNCHANGED focused
            /\ active_tab' = tab_id
            /\ last' = Call("switch_tab", tab_id, "", "ok")
            /\ UNCHANGED <<tabs, content_bounds, chrome_y_offset>>
    /\ UNCHANGED <<inner_size, scale, next_uuid>>

\* tabs::hide_all_tabs
hide_all_tabs ==
    /\ webviews' = park(webviews, DOMAIN tabs)
    /\ last' = Call("hide_all_tabs", NoTab, "", "ok")
    /\ UNCHANGED <<state_vars, focused, inner_size, scale, next_uuid>>

\* tabs::navigate_tab; `nav_ok` is the outcome of webview.navigate
navigate_tab(tab_id, url, nav_ok) ==
    /\ ~nav_ok => (tab_id \in DOMAIN tabs /\ tab_id \in DOMAIN webviews /\ UrlParses(url))
    /\ IF tab_id \notin DOMAIN tabs THEN
            /\ last' = Call("navigate_tab", tab_id, url, "NotFound")
            /\ UNCHANGED tabs
       ELSE
            /\ tabs' = [tabs EXCEPT ![tab_id].url = url]
            /\ last' = Call("navigate_tab", tab_id, url,
                    IF tab_id \notin DOMAIN webviews THEN "ok"
                    ELSE IF ~UrlParses(url) THEN "InvalidUrl"
                    ELSE IF ~nav_ok THEN "SurfaceOpFailed"
                    ELSE "ok")
    /\ UNCHANGED <<active_tab, content_bounds, chrome_y_offset, webviews,
                   focused, inner_size, scale, next_uuid>>

\* tabs::run_js_in_tab; `eval_ok` is the outcome of webview.eval
run_js_in_tab(tab_id, eval_ok) ==
    /\ ~eval_ok => tab_id \in DOMAIN webviews
    /\ last' = Call("run_js_in_tab", tab_id, "",
            IF tab_id \notin DOMAIN webviews THEN "NotFound"
            ELSE IF ~eval_ok THEN "SurfaceOpFailed"
            ELSE "ok")
    /\ UNCHANGED <<state_vars, webviews, focused, inner_size, scale, next_uuid>>

\* the body of tabs::reposition_webviews: its result and the webviews after it
RepositionFaults == {"none", "no_window", "layout"}

reposition_result(active, fault) ==
    IF active = NoTab THEN "ok"
    ELSE IF fault = "no_window" THEN "WindowMissing"
    ELSE IF fault = "layout" THEN "LayoutError"
    ELSE "ok"

\* a reposition that places every surface, not only the active one
reposition_webviews_all(wv, active, cb, y_off, size, sc, fault) ==
    IF reposition_result(active, fault) = "ok" /\ active # NoTab
    THEN [l \in DOMAIN wv |->
            [wv[l] EXCEPT !.rect = resolve_content_bounds(cb, y_off, size, sc)]]
    ELSE wv

reposition_webviews(wv, active, cb, y_off, size, sc, fault) ==
    IF reposition_result(active, fault) = "ok" /\ active # NoTab /\ active \in DOMAIN wv
    THEN [wv EXCEPT ![active].rect = resolve_content_bounds(cb, y_off, size, sc)]
    ELSE wv

\* the reposition_tabs command: tabs::reposition_webviews under the lock
reposition_tabs(fault) ==
    /\ fault # "none" => active_tab # NoTab
    /\ webviews' = reposition_webviews(webviews, active_tab, content_bounds,
                                       chrome_y_offset, inner_size, scale, fault)
    /\ last' = Call("reposition_tabs", NoTab, "", reposition_result(active_tab, fault))
    /\ UNCHANGED <<state_vars, focused, inner_size, scale, next_uuid>>

\* a resize handler that recomputes the title-bar offset from the new size
on_window_event_recompute(size, fault) ==
    LET y_off == IF content_bounds = NoBounds THEN chrome_y_offset
                 ELSE Max((size[2] * Den) \div scale
                          - (content_bounds[1].top + content_bounds[1].height), 0)
    IN
    /\ inner_size' = size
    /\ chrome_y_offset' = y_off
    /\ webviews' = reposition_webviews(webviews, active_tab, content_bounds,
                                       y_off, size, scale, fault)
    /\ last' = Call("resized", NoTab, "", reposition_result(active_tab, fault))
    /\ UNCHANGED <<tabs, active_tab, content_bounds, focused, scale, next_uuid>>

\* lib.rs: WindowEvent::Resized, handled by reposition_webviews under the lock
on_window_event(size, fault) ==
    /\ fault # "none" => active_tab # NoTab
    /\ inner_size' = size
    /\ webviews' = reposition_webviews(webviews, active_tab, content_bounds,
                                       chrome_y_offset, size, scale, fault)
    /\ last' = Call("resized", NoTab, "", reposition_result(active_tab, fault))
    /\ UNCHANGED <<state_vars, focused, scale, next_uuid>>

\* set_content_bounds that adds the new offset to the stored one
set_content_bounds_accumulate(bounds, fault) ==
    IF fault = "no_window" \/ fault = "layout" THEN
        /\ last' = Call("set_content_bounds", NoTab, "",
                IF fault = "no_window" THEN "WindowMissing" ELSE "LayoutError")
        /\ UNCHANGED <<state_vars, webviews, focused, inner_size, scale, next_uuid>>
    ELSE
        LET inner_h_logical == (inner_size[2] * Den) \div scale
            viewport_h == bounds.top + bounds.height
            y_off == chrome_y_offset + Max(inner_h_logical - viewport_h, 0)
        IN
        /\ chrome_y_offset' = y_off
        /\ content_bounds' = <<bounds>>
        /\ \E f2 \in RepositionFaults :
            /\ f2 # "none" => active_tab # NoTab
            /\ webviews' = reposition_webviews(webviews, active_tab, <<bounds>>,
                                               y_off, inner_size, scale, f2)
            /\ last' = Call("set_content_bounds", NoTab, "",
                            reposition_result(active_tab, f2))
        /\ UNCHANGED <<tabs, active_tab, focused, inner_size, scale, next_uuid>>

\* set_content_bounds without the .max(0.0) clamp of line 617
set_content_bounds_unclamped(bounds, fault) ==
    IF fault = "no_window" \/ fault = "layout" THEN
        /\ last' = Call("set_content_bounds", NoTab, "",
                IF fault = "no_window" THEN "WindowMissing" ELSE "LayoutError")
        /\ UNCHANGED <<state_vars, webviews, focused, inner_size, scale, next_uuid>>
    ELSE
        LET inner_h_logical == (inner_size[2] * Den) \div scale
            viewport_h == bounds.top + bounds.height
            y_off == inner_h_logical - viewport_h
        IN
        /\ chrome_y_offset' = y_off
        /\ content_bounds' = <<bounds>>
        /\ \E f2 \in RepositionFaults :
            /\ f2 # "none" => active_tab # NoTab
            /\ webviews' = reposition_webviews(webviews, active_tab, <<bounds>>,
                                               y_off, inner_size, scale, f2)
            /\ last' = Call("set_content_bounds", NoTab, "",
                            reposition_result(active_tab, f2))
        /\ UNCHANGED <<tabs, active_tab, focused, inner_size, scale, next_uuid>>

\* tabs::set_content_bounds
set_content_bounds(bounds, fault) ==
    IF fault = "no_window" \/ fault = "layout" THEN
        /\ last' = Call("set_content_bounds", NoTab, "",
                IF fault = "no_window" THEN "WindowMissing" ELSE "LayoutError")
        /\ UNCHANGED <<state_vars, webviews, focused, inner_size, scale, next_uuid>>
    ELSE
        LET inner_h_logical == (inner_size[2] * Den) \div scale
            viewport_h == bounds.top + bounds.height
            y_off == Max(inner_h_logical - viewport_h, 0)
        IN
        /\ chrome_y_offset' = y_off
        /\ content_bounds' = <<bounds>>
        /\ \E f2 \in RepositionFaults :
            /\ f2 # "none" => active_tab # NoTab
            /\ webviews' = reposition_webviews(webviews, active_tab, <<bounds>>,
                                               y_off, inner_size, scale, f2)
            /\ last' = Call("set_content_bounds", NoTab, "",
                            reposition_result(active_tab, f2))
        /\ UNCHANGED <<tabs, active_tab, focused, inner_size, scale, next_uuid>>

\* ipc::create_tab
ipc_create_tab(url) ==
    /\ LET id == next_uuid IN
        /\ tabs' = Insert(tabs, id, TabInfo(id, url))
        /\ active_tab' = id
        /\ next_uuid' = next_uuid + 1
        /\ last' = Call("ipc_create_tab", id, url, "ok")
    /\ UNCHANGED <<content_bounds, chrome_y_offset, webviews, focused, inner_size, scale>>

\* ipc::close_tab
ipc_close_tab(tab_id, elected) ==
    LET remaining == Remove(tabs, tab_id) IN
    /\ tabs' = remaining
    /\ IF active_tab = tab_id THEN
            /\ IF DOMAIN remaining = {} THEN elected = NoTab
                                        ELSE elected \in DOMAIN remaining
            /\ active_tab' = elected
       ELSE /\ elected = NoTab
            /\ UNCHANGED active_tab
    /\ last' = Call("ipc_close_tab", tab_id, "", "ok")
    /\ UNCHANGED <<content_bounds, chrome_y_offset, webviews, focused,
                   inner_size, scale, next_uuid>>

\* ipc::switch_tab
ipc_switch_tab(tab_id) ==
    /\ IF tab_id \in DOMAIN tabs THEN
            /\ active_tab' = tab_id
            /\ last' = Call("ipc_switch_tab", tab_id, "", "ok")
       ELSE /\ last' = Call("ipc_switch_tab", tab_id, "", "NotFound")
            /\ UNCHANGED active_tab
    /\ UNCHANGED <<tabs, content_bounds, chrome_y_offset, webviews, focused,
                   inner_size, scale, next_uuid>>

\* ipc::navigate_tab
ipc_navigate_tab(tab_id, url) ==
    /\ IF tab_id \in DOMAIN tabs THEN
            /\ tabs' = [tabs EXCEPT ![tab_id].url = url]
            /\ last' = Call("ipc_navigate_tab", tab_id, url, "ok")
       ELSE /\ last' = Call("ipc_navigate_tab", tab_id, url, "NotFound")
            /\ UNCHANGED tabs
    /\ UNCHANGED <<active_tab, content_bounds, chrome_y_offset, webviews,
                   focused, inner_size, scale, next_uuid>>

\* ipc::run_js_in_tab
ipc_run_js_in_tab(tab_id) ==
    /\ last' = Call("ipc_run_js_in_tab", tab_id, "", "ok")
    /\ UNCHANGED <<state_vars, webviews, focused, inner_size, scale, next_uuid>>

\* ipc::list_tabs
list_tabs == {tabs[k] : k \in DOMAIN tabs}

\* ipc::get_active_tab
get_active_tab == active_tab

\* every operation, with its inputs drawn from the given sets; at most
\* `max` uuids are handed out
NextIn(max, urls, nav_urls, sizes, bounds) ==
    \/ \E u \in urls, f \in CreateFaults : next_uuid <= max /\ create_tab(u, f)
        /\ UNCHANGED aux_vars
    \/ \E i \in 1..max, e \in 0..max : close_tab(i, e)
        /\ UNCHANGED aux_vars
    \/ \E i \in 1..max, w \in BOOLEAN : switch_tab(i, w)
        /\ UNCHANGED aux_vars
    \/ hide_all_tabs /\ UNCHANGED aux_vars
    \/ \E i \in 1..max, u \in nav_urls, ok \in BOOLEAN : navigate_tab(i, u, ok)
        /\ UNCHANGED aux_vars
    \/ \E i \in 1..max, ok \in BOOLEAN : run_js_in_tab(i, ok)
        /\ UNCHANGED aux_vars
    \/ \E f \in RepositionFaults : reposition_tabs(f)
        /\ UNCHANGED aux_vars
    \/ \E s \in sizes, f \in RepositionFaults : on_window_event(s, f)
        /\ UNCHANGED aux_vars
    \/ \E b \in bounds, f \in RepositionFaults : set_content_bounds(b, f)
        /\ UNCHANGED aux_vars
    \/ \E u \in urls : next_uuid <= max /\ ipc_create_tab(u)
        /\ UNCHANGED aux_vars
    \/ \E i \in 1..max, e \in 0..max : ipc_close_tab(i, e)
        /\ UNCHANGED aux_vars
    \/ \E i \in 1..max : ipc_switch_tab(i)
        /\ UNCHANGED aux_vars
    \/ \E i \in 1..max, u \in nav_urls : ipc_navigate_tab(i, u)
        /\ UNCHANGED aux_vars
    \/ \E i \in 1..max : ipc_run_js_in_tab(i)
        /\ UNCHANGED aux_vars

\* the tab registry at full width, in a window of one size
NextTabs == NextIn(MaxTabs, Urls, NavUrls, {<<1000, 800>>}, {Bounds0})
InitTabs == Init /\ inner_size = <<1000, 800>> /\ scale = 1
SpecTabs == InitTabs /\ [][NextTabs]_vars

\* the layout at full width, with few tabs
NextLayout == NextIn(MaxLayoutTabs, {"about:blank"}, {"about:blank"}, WinSizes, BoundsSet)
SpecLayout == Init /\ [][NextLayout]_vars

\* ----------------------------------------------------------- sidecar relay
\* Each command invocation is a call slot; the steps of a call are the
\* places where another call can run in between: taking the lock, the
\* critical section up to the drop of the guard, and the emit after it.
SidecarCalls == 1..MaxCalls

\* next_request_id that hands out next_id without advancing it
next_request_id_stuck(st) == [id |-> st.next_id, state |-> st]

\* SidecarState::next_request_id: the id it returns and the state it leaves
next_request_id(st) == [id |-> st.next_id, state |-> [st EXCEPT !.next_id = @ + 1]]

\* sidecar_send, line 62: state.lock()
sidecar_send_lock(c) ==
    /\ calls[c].pc = "idle" /\ sidecar_lock = NoCall
    /\ sidecar_lock' = c
    /\ calls' = [calls EXCEPT ![c].cmd = "sidecar_send", ![c].pc = "locked"]
    /\ lock_order' = Append(lock_order, c)
    /\ UNCHANGED <<sidecar, events, app_vars>>

\* sidecar_send, lines 63-64: next_request_id() and the drop of the guard
sidecar_send_next_id(c) ==
    /\ calls[c].cmd = "sidecar_send" /\ calls[c].pc = "locked"
    /\ LET r == next_request_id(sidecar) IN
        /\ sidecar' = r.state
        /\ calls' = [calls EXCEPT ![c].id = r.id, ![c].pc = "emit"]
    /\ sidecar_lock' = NoCall
    /\ UNCHANGED <<events, lock_order, app_vars>>

\* sidecar_send, lines 66-77: emit of "sidecar-request" and the return
sidecar_send_emit(c, emit_ok) ==
    /\ calls[c].cmd = "sidecar_send" /\ calls[c].pc = "emit"
    /\ IF emit_ok THEN
            /\ events' = Append(events, [event |-> "sidecar-request", id |-> calls[c].id])
            /\ calls' = [calls EXCEPT ![c].res = "Ok", ![c].pc = "done"]
       ELSE /\ calls' = [calls EXCEPT ![c].res = "Err", ![c].pc = "done"]
            /\ UNCHANGED events
    /\ UNCHANGED <<sidecar, sidecar_lock, lock_order, app_vars>>

\* start_sidecar, line 37: state.lock()
start_sidecar_lock(c) ==
    /\ calls[c].pc = "idle" /\ sidecar_lock = NoCall
    /\ sidecar_lock' = c
    /\ calls' = [calls EXCEPT ![c].cmd = "start_sidecar", ![c].pc = "locked"]
    /\ UNCHANGED <<sidecar, events, lock_order, app_vars>>

\* a start_sidecar that does not look at started before it proceeds
start_sidecar_mark_unchecked(c) ==
    /\ calls[c].cmd = "start_sidecar" /\ calls[c].pc = "locked"
    /\ sidecar' = [sidecar EXCEPT !.started = TRUE]
    /\ calls' = [calls EXCEPT ![c].pc = "emit"]
    /\ sidecar_lock' = NoCall
    /\ UNCHANGED <<events, lock_order, app_vars>>

\* start_sidecar, lines 38-42: return if started, else set it and drop
start_sidecar_mark(c) ==
    /\ calls[c].cmd = "start_sidecar" /\ calls[c].pc = "locked"
    /\ IF sidecar.started THEN
            /\ calls' = [calls EXCEPT ![c].res = "Ok", ![c].pc = "done"]
            /\ UNCHANGED sidecar
       ELSE /\ sidecar' = [sidecar EXCEPT !.started = TRUE]
            /\ calls' = [calls EXCEPT ![c].pc = "emit"]
    /\ sidecar_lock' = NoCall
    /\ UNCHANGED <<events, lock_order, app_vars>>

\* start_sidecar, lines 47-49: emit of "sidecar-status" and the return
start_sidecar_emit(c) ==
    /\ calls[c].cmd = "start_sidecar" /\ calls[c].pc = "emit"
    /\ events' = Append(events, [event |-> "sidecar-status", id |-> 0])
    /\ calls' = [calls EXCEPT ![c].res = "Ok", ![c].pc = "done"]
    /\ UNCHANGED <<sidecar, sidecar_lock, lock_order, app_vars>>

\* sidecar_receive: `parses` is the outcome of serde_json::from_str
sidecar_receive(c, parses, emit_ok) ==
    /\ calls[c].pc = "idle"
    /\ ~emit_ok => parses
    /\ IF parses /\ emit_ok THEN
            /\ events' = Append(events, [event |-> "sidecar-message", id |-> 0])
            /\ calls' = [calls EXCEPT ![c] = [cmd |-> "sidecar_receive",
                            pc |-> "done", id |-> 0, res |-> "Ok"]]
       ELSE /\ calls' = [calls EXCEPT ![c] = [cmd |-> "sidecar_receive",
                            pc |-> "done", id |-> 0, res |-> "Err"]]
            /\ UNCHANGED events
    /\ UNCHANGED <<sidecar, sidecar_lock, lock_order, app_vars>>

NextSidecar ==
    \/ \E c \in SidecarCalls : sidecar_send_lock(c)
    \/ \E c \in SidecarCalls : sidecar_send_next_id(c)
    \/ \E c \in SidecarCalls, ok \in BOOLEAN : sidecar_send_emit(c, ok)
    \/ \E c \in SidecarCalls : start_sidecar_lock(c)
    \/ \E c \in SidecarCalls : start_sidecar_mark(c)
    \/ \E c \in SidecarCalls : start_sidecar_emit(c)
    \/ \E c \in SidecarCalls, p \in BOOLEAN, ok \in BOOLEAN : sidecar_receive(c, p, ok)

\* the sidecar commands, invoked from any number of threads
SpecSidecar == InitTabs /\ [][NextSidecar]_vars

\* ------------------------------------------- watchers, callbacks, the lock
\* The macOS build with devtools: watch_webview_devtools spawns a task per
\* surface (lib.rs for "main", create_tab for "tab-<id>").

\* app.get_webview(&label) is Some
resolvable(l) == l = MainLabel \/ l \in DOMAIN webviews

\* webview.is_devtools_open(); a surface without an entry has it closed
is_devtools_open(l) == l \in DOMAIN inspector /\ inspector[l] # "closed"

\* the inspectors of the surfaces that are left in wv
live_inspectors(ins, wv) ==
    [l \in {x \in DOMAIN ins : x = MainLabel \/ x \in DOMAIN wv} |-> ins[l]]

\* devtools::watch_webview_devtools: the spawn
watch_webview_devtools(ws, l) == Insert(ws, l, Spawned)

\* a watcher loop without the break of line 34
watcher_poll_no_break(l) ==
    /\ l \in DOMAIN watchers /\ watchers[l].pc = "running"
    /\ resolvable(l)
    /\ LET is_open == is_devtools_open(l) IN
        /\ inspector' = IF is_open /\ ~watchers[l].was_open
                        THEN [inspector EXCEPT ![l] = "detached"]
                        ELSE inspector
        /\ watchers' = [watchers EXCEPT ![l].was_open = is_open]
    /\ ui_events' = <<>>
    /\ UNCHANGED <<tab_vars, sidecar_vars, page_vars, lock_vars>>

\* a watcher loop that detaches on every poll that sees the inspector open
watcher_poll_level(l) ==
    /\ l \in DOMAIN watchers /\ watchers[l].pc = "running"
    /\ IF ~resolvable(l) THEN
            /\ watchers' = [watchers EXCEPT ![l].pc = "terminated"]
            /\ UNCHANGED inspector
       ELSE LET is_open == is_devtools_open(l) IN
            /\ inspector' = IF is_open
                            THEN [inspector EXCEPT ![l] = "detached"]
                            ELSE inspector
            /\ watchers' = [watchers EXCEPT ![l].was_open = is_open]
    /\ ui_events' = <<>>
    /\ UNCHANGED <<tab_vars, sidecar_vars, page_vars, lock_vars>>

\* one iteration of the watcher loop of devtools.rs, lines 32-45
watcher_poll(l) ==
    /\ l \in DOMAIN watchers /\ watchers[l].pc = "running"
    /\ IF ~resolvable(l) THEN
            /\ watchers' = [watchers EXCEPT ![l].pc = "terminated"]
            /\ UNCHANGED inspector
       ELSE LET is_open == is_devtools_open(l) IN
            /\ inspector' = IF is_open /\ ~watchers[l].was_open
                            THEN [inspector EXCEPT ![l] = "detached"]
                            ELSE inspector
            /\ watchers' = [watchers EXCEPT ![l].was_open = is_open]
    /\ ui_events' = <<>>
    /\ UNCHANGED <<tab_vars, sidecar_vars, page_vars, lock_vars>>

\* the user opens the Web Inspector of a surface, docked
open_devtools(l) ==
    /\ resolvable(l) /\ ~is_devtools_open(l)
    /\ inspector' = Insert(inspector, l, "docked")
    /\ ui_events' = <<>>
    /\ UNCHANGED <<tab_vars, sidecar_vars, page_vars, lock_vars, watchers>>

\* the user closes the Web Inspector of a surface
close_devtools(l) ==
    /\ resolvable(l) /\ is_devtools_open(l)
    /\ inspector' = [inspector EXCEPT ![l] = "closed"]
    /\ ui_events' = <<>>
    /\ UNCHANGED <<tab_vars, sidecar_vars, page_vars, lock_vars, watchers>>

\* create_tab in this build: line 423 spawns the watcher of the new surface
mac_create_tab(url, fault) ==
    /\ create_tab(url, fault)
    /\ watchers' = IF last'.res = "ok" THEN watch_webview_devtools(watchers, last'.id)
                   ELSE watchers
    /\ UNCHANGED inspector

\* close_tab in this build: the inspector goes with the surface
mac_close_tab(tab_id, elected) ==
    /\ close_tab(tab_id, elected)
    /\ inspector' = live_inspectors(inspector, webviews')
    /\ UNCHANGED watchers

\* urls a page of a surface can be at
PageUrls == {"https://example.com/", "https://example.com/blank.html",
             "tauri://localhost/blank.html"}

\* url.path().ends_with(BLANK_PAGE_PATH)
path_ends_with_blank(u) ==
    u \in {"https://example.com/blank.html", "tauri://localhost/blank.html"}

\* tabs::normalize_tab_url
normalize_tab_url(u) == IF path_ends_with_blank(u) THEN "about:blank" ELSE u

UiEvent(name, id, url, reason) ==
    [event |-> name, tabId |-> id, url |-> url, reason |-> reason]

\* the on_page_load closure of create_tab, lines 358-369
on_page_load(id, url, finished) ==
    /\ id \in DOMAIN webviews
    /\ ui_events' = IF finished
                    THEN <<UiEvent("tab-loaded", id, normalize_tab_url(url), "")>>
                    ELSE <<>>
    /\ last' = Call("on_page_load", id, url, "ok")
    /\ UNCHANGED <<state_vars, webviews, focused, inner_size, scale, next_uuid,
                   sidecar_vars, page_vars, lock_vars, watcher_vars>>

\* the on_navigation closure of create_tab, lines 373-383
on_navigation(id, url) ==
    /\ id \in DOMAIN webviews
    /\ ui_events' = <<UiEvent("tab-navigated", id, normalize_tab_url(url), "")>>
    /\ last' = Call("on_navigation", id, url, "allow")
    /\ UNCHANGED <<state_vars, webviews, focused, inner_size, scale, next_uuid,
                   sidecar_vars, page_vars, lock_vars, watcher_vars>>

\* an on_new_window closure that reports the request under the active tab
\* and reports it twice
on_new_window_twice(id, url) ==
    /\ id \in DOMAIN webviews
    /\ ui_events' = <<UiEvent("tab-open-request", active_tab, normalize_tab_url(url),
                              "new-window"),
                      UiEvent("tab-open-request", active_tab, normalize_tab_url(url),
                              "new-window")>>
    /\ last' = Call("on_new_window", id, url, "Deny")
    /\ UNCHANGED <<state_vars, webviews, focused, inner_size, scale, next_uuid,
                   sidecar_vars, page_vars, lock_vars, watcher_vars>>

\* the on_new_window closure of create_tab, lines 387-398
on_new_window(id, url) ==
    /\ id \in DOMAIN webviews
    /\ ui_events' = <<UiEvent("tab-open-request", id, normalize_tab_url(url),
                              "new-window")>>
    /\ last' = Call("on_new_window", id, url, "Deny")
    /\ UNCHANGED <<state_vars, webviews, focused, inner_size, scale, next_uuid,
                   sidecar_vars, page_vars, lock_vars, watcher_vars>>

\* ipc::list_tabs and ipc::get_active_tab as commands
ipc_list_tabs ==
    /\ last' = Call("ipc_list_tabs", NoTab, "", "ok")
    /\ UNCHANGED <<state_vars, webviews, focused, inner_size, scale, next_uuid>>

ipc_get_active_tab ==
    /\ last' = Call("ipc_get_active_tab", get_active_tab, "", "ok")
    /\ UNCHANGED <<state_vars, webviews, focused, inner_size, scale, next_uuid>>

Threads == 1..MaxThreads

\* a lock() that does not wait for the mutex to be free
lock_unguarded(t) ==
    /\ thread_pc[t] = "idle"
    /\ registry_lock' = t
    /\ thread_pc' = [thread_pc EXCEPT ![t] = "locked"]
    /\ ui_events' = <<>>
    /\ UNCHANGED <<tab_vars, sidecar_vars, page_vars, watcher_vars>>

\* state.lock() of a command or of the resize handler returns the guard
lock(t) ==
    /\ thread_pc[t] = "idle" /\ registry_lock = NoThread
    /\ registry_lock' = t
    /\ thread_pc' = [thread_pc EXCEPT ![t] = "locked"]
    /\ ui_events' = <<>>
    /\ UNCHANGED <<tab_vars, sidecar_vars, page_vars, watcher_vars>>

\* the entry point returns and its guard is dropped
drop_guard(t) ==
    /\ thread_pc[t] = "done"
    /\ registry_lock' = NoThread
    /\ thread_pc' = [thread_pc EXCEPT ![t] = "idle"]
    /\ ui_events' = <<>>
    /\ UNCHANGED <<tab_vars, sidecar_vars, page_vars, watcher_vars>>

\* the body of an entry point, run by the thread that holds the guard
held(t) ==
    /\ thread_pc[t] = "locked"
    /\ thread_pc' = [thread_pc EXCEPT ![t] = "done"]
    /\ ui_events' = <<>>
    /\ UNCHANGED <<registry_lock, sidecar_vars, page_vars>>

\* every entry point that touches the TabState, between lock() and the drop
\* of its guard, next to the tasks and callbacks that run without the lock
NextLock ==
    \/ \E t \in Threads : lock(t)
    \/ \E t \in Threads : drop_guard(t)
    \/ \E t \in Threads, f \in CreateFaults :
        next_uuid <= MaxLockTabs /\ held(t) /\ mac_create_tab("about:blank", f)
    \/ \E t \in Threads, i \in 1..MaxLockTabs, e \in 0..MaxLockTabs :
        held(t) /\ mac_close_tab(i, e)
    \/ \E t \in Threads, i \in 1..MaxLockTabs, w \in BOOLEAN :
        held(t) /\ switch_tab(i, w) /\ UNCHANGED watcher_vars
    \/ \E t \in Threads : held(t) /\ hide_all_tabs /\ UNCHANGED watcher_vars
    \/ \E t \in Threads, i \in 1..MaxLockTabs, ok \in BOOLEAN :
        held(t) /\ navigate_tab(i, "about:blank", ok) /\ UNCHANGED watcher_vars
    \/ \E i \in 1..MaxLockTabs, ok \in BOOLEAN :
        run_js_in_tab(i, ok) /\ ui_events' = <<>>
            /\ UNCHANGED <<sidecar_vars, page_vars, lock_vars, watcher_vars>>
    \/ \E t \in Threads, f \in RepositionFaults :
        held(t) /\ reposition_tabs(f) /\ UNCHANGED watcher_vars
    \/ \E t \in Threads, f \in RepositionFaults :
        held(t) /\ on_window_event(<<1000, 800>>, f) /\ UNCHANGED watcher_vars
    \/ \E t \in Threads, f \in RepositionFaults :
        held(t) /\ set_content_bounds(Bounds0, f) /\ UNCHANGED watcher_vars
    \/ \E t \in Threads :
        next_uuid <= MaxLockTabs /\ held(t) /\ ipc_create_tab("about:blank")
            /\ UNCHANGED watcher_vars
    \/ \E t \in Threads, i \in 1..MaxLockTabs, e \in 0..MaxLockTabs :
        held(t) /\ ipc_close_tab(i, e) /\ UNCHANGED watcher_vars
    \/ \E t \in Threads, i \in 1..MaxLockTabs :
        held(t) /\ ipc_switch_tab(i) /\ UNCHANGED watcher_vars
    \/ \E t \in Threads, i \in 1..MaxLockTabs :
        held(t) /\ ipc_navigate_tab(i, "about:blank") /\ UNCHANGED watcher_vars
    \/ \E t \in Threads : held(t) /\ ipc_list_tabs /\ UNCHANGED watcher_vars
    \/ \E t \in Threads : held(t) /\ ipc_get_active_tab /\ UNCHANGED watcher_vars
    \/ \E i \in 1..MaxLockTabs :
        ipc_run_js_in_tab(i) /\ ui_events' = <<>>
            /\ UNCHANGED <<sidecar_vars, page_vars, lock_vars, watcher_vars>>
    \/ \E l \in {MainLabel} \cup 1..MaxLockTabs : watcher_poll(l)
    \/ \E i \in 1..MaxLockTabs, u \in PageUrls, fin \in BOOLEAN : on_page_load(i, u, fin)
    \/ \E i \in 1..MaxLockTabs, u \in PageUrls : on_navigation(i, u)
    \/ \E i \in 1..MaxLockTabs, u \in PageUrls : on_new_window(i, u)

\* the state after setup: lib.rs has spawned the watcher of "main"
InitMac ==
    /\ InitApp(watch_webview_devtools(<<>>, MainLabel))
    /\ inner_size = <<1000, 800>> /\ scale = 1

SpecLock == InitMac /\ [][NextLock]_vars

\* the surfaces come and go, the user opens and closes their inspectors,
\* and the watcher tasks poll; every handler is one step
WatchLabels == {MainLabel} \cup 1..MaxWatchTabs

NextWatcher ==
    \/ \E f \in CreateFaults :
        next_uuid <= MaxWatchTabs /\ mac_create_tab("about:blank", f)
            /\ ui_events' = <<>> /\ UNCHANGED <<sidecar_vars, page_vars, lock_vars>>
    \/ \E i \in 1..MaxWatchTabs, e \in 0..MaxWatchTabs :
        mac_close_tab(i, e)
            /\ ui_events' = <<>> /\ UNCHANGED <<sidecar_vars, page_vars, lock_vars>>
    \/ next_uuid <= MaxWatchTabs /\ ipc_create_tab("about:blank")
            /\ UNCHANGED aux_vars
    \/ \E i \in 1..MaxWatchTabs, e \in 0..MaxWatchTabs :
        ipc_close_tab(i, e) /\ UNCHANGED aux_vars
    \/ \E l \in WatchLabels : watcher_poll(l)
    \/ \E l \in WatchLabels : open_devtools(l)
    \/ \E l \in WatchLabels : close_devtools(l)

SpecWatcher == InitMac /\ [][NextWatcher]_vars

\* the async runtime resumes every watcher task after its sleep
SpecWatcherFair == SpecWatcher /\ \A l \in WatchLabels : WF_vars(watcher_poll(l))

\* ------------------------------------------------- link-intercept script
\* The script that create_tab injects into every page (tabs.rs 146-204)
\* registers one capturing click listener.  A click is dispatched by the
\* user (click_link) and then handled by the listener (handler).

\* href attributes of the clicked link: empty, relative, and one that
\* new URL() rejects
Hrefs == {"", "/next", "http://["}

\* what was clicked: a node that is no Element, an element outside any
\* a[href], or an element inside an a[href] with the given attribute
ClickTargets ==
    {[target |-> "document", href |-> ""], [target |-> "div", href |-> ""]}
        \cup {[target |-> "anchor", href |-> h] : h \in Hrefs}

\* event.button: 0 is the primary button
Buttons == {0, 1}

ClickEvents ==
    {[shiftKey |-> s, metaKey |-> m, defaultPrevented |-> d, button |-> b,
      target |-> t.target, href |-> t.href] :
        s \in BOOLEAN, m \in BOOLEAN, d \in BOOLEAN, b \in Buttons, t \in ClickTargets}

\* window.__TAURI__.event.emit in the page: a function, absent, or throwing
Channels == {"available", "missing", "throws"}

\* document.baseURI of the page
BaseURI == "https://example.com/"

Null == "null"

\* resolveUrl, lines 165-171: new URL(href, document.baseURI).toString(),
\* null when the constructor throws
resolveUrl(href) ==
    CASE href = "/next" -> "https://example.com/next"
      [] href = "" -> BaseURI
      [] OTHER -> Null

\* emit, lines 153-163: TRUE when api.emit was called and returned
emit(channel) == channel = "available"

\* wantsNewTab, line 180
wantsNewTab(ev, isMac) == ev.shiftKey \/ (isMac /\ ev.metaKey)

\* the url the handler reports for the event, or Null where it returns
\* before emit: lines 179-196
intercepted_url(ev, isMac) ==
    IF ~wantsNewTab(ev, isMac) THEN Null
    ELSE IF ev.defaultPrevented THEN Null
    ELSE IF ev.button # 0 THEN Null
    ELSE IF ev.target = "document" THEN Null
    ELSE IF ev.target # "anchor" THEN Null
    ELSE IF ev.href = "" THEN Null
    ELSE resolveUrl(ev.href)

\* the user clicks in the page of surface id
click_link(id, ev, isMac, channel) ==
    /\ id \in DOMAIN webviews
    /\ click' = [tab |-> id, phase |-> "dispatched", isMac |-> isMac,
                 channel |-> channel, event |-> ev,
                 prevented |-> FALSE, stopped |-> FALSE]
    /\ ui_events' = <<>>
    /\ UNCHANGED <<tab_vars, sidecar_vars, lock_vars, watcher_vars>>

\* a handler that suppresses the click before it knows that emit succeeded
handler_prevent_first ==
    /\ click.phase = "dispatched"
    /\ LET url == intercepted_url(click.event, click.isMac)
           sent == url # Null /\ emit(click.channel)
       IN /\ ui_events' = IF sent
                          THEN <<UiEvent("tab-open-request", click.tab, url, "shift-click")>>
                          ELSE <<>>
          /\ click' = [click EXCEPT !.phase = "handled",
                                    !.prevented = url # Null, !.stopped = url # Null]
    /\ UNCHANGED <<tab_vars, sidecar_vars, lock_vars, watcher_vars>>

\* handler, lines 178-200, on the dispatched click
handler ==
    /\ click.phase = "dispatched"
    /\ LET url == intercepted_url(click.event, click.isMac)
           sent == url # Null /\ emit(click.channel)
       IN /\ ui_events' = IF sent
                          THEN <<UiEvent("tab-open-request", click.tab, url, "shift-click")>>
                          ELSE <<>>
          /\ click' = [click EXCEPT !.phase = "handled",
                                    !.prevented = sent, !.stopped = sent]
    /\ UNCHANGED <<tab_vars, sidecar_vars, lock_vars, watcher_vars>>

NextClick ==
    \/ next_uuid <= MaxClickTabs /\ create_tab("about:blank", "none")
            /\ UNCHANGED aux_vars
    \/ \E id \in 1..MaxClickTabs, ev \in ClickEvents, m \in BOOLEAN, ch \in Channels :
        click_link(id, ev, m, ch)
    \/ handler

SpecClick == InitTabs /\ [][NextClick]_vars

\* ------------------------------------------------------------------ claims
CloseOps == {"close_tab", "ipc_close_tab"}
CreateOps == {"create_tab", "ipc_create_tab"}

\* the origin of the rectangle lies inside the window
InsideWindow(r) ==
    /\ r.x >= 0 /\ r.x < inner_size[1]
    /\ r.y >= 0 /\ r.y < inner_size[2]

\* C1 (I1): in every reachable state active_tab is absent or a key of tabs.
C1_ActiveTabIsKey == active_tab = NoTab \/ active_tab \in DOMAIN tabs

\* the active tab was closed while another tab remained, and one was elected
C1_Witness ==
    /\ last.op = "close_tab" /\ last.known /\ last.active = last.id
    /\ active_tab # NoTab /\ active_tab \in DOMAIN tabs

\* C2 (I2): after every operation at most one surface is placed inside the
\* window, and the surface of every tab other than active_tab is at the
\* off-screen sentinel.
C2_SingleSurfaceInWindow ==
    /\ Cardinality({i \in DOMAIN webviews : InsideWindow(webviews[i].rect)}) <= 1
    /\ \A i \in (DOMAIN tabs \cap DOMAIN webviews) \ {active_tab} :
            webviews[i].rect = offscreen

\* C3 (P1): a successful create(url) makes the fresh id the active tab and
\* list_tabs() holds a record for it with title "New Tab" and the supplied
\* url, "about:blank" standing for an empty or blank url.
C3_CreateRecordsCanonicalUrl ==
    [][(last'.op \in CreateOps /\ last'.res = "ok") =>
        /\ active_tab' = last'.id
        /\ last'.id \notin DOMAIN tabs
        /\ [id |-> last'.id,
            url |-> IF last'.url \in {"", "about:blank"} THEN "about:blank"
                    ELSE last'.url,
            title |-> "New Tab"] \in list_tabs']_vars

\* C4 (P3): closing the active tab leaves active_tab on a remaining tab when
\* one exists, and absent when the closed tab was the last one.
C4_CloseActiveElects ==
    [][(last'.op \in CloseOps /\ last'.id = active_tab) =>
        IF DOMAIN tabs' # {} THEN active_tab' \in DOMAIN tabs'
                             ELSE active_tab' = NoTab]_vars

\* the active tab was closed with another tab remaining
C4_Witness ==
    /\ last.op \in CloseOps /\ last.known /\ last.active = last.id
    /\ DOMAIN tabs # {} /\ active_tab \in DOMAIN tabs

\* C5 (P4): switch, navigate and run_js on an id that is not a key of tabs
\* return NotFound and leave the registry state unchanged.
UnknownIdOps == {"switch_tab", "ipc_switch_tab", "navigate_tab",
                 "ipc_navigate_tab", "run_js_in_tab", "ipc_run_js_in_tab"}

C5_UnknownIdNotFound ==
    [][(last'.op \in UnknownIdOps /\ last'.id \notin DOMAIN tabs) =>
        (last'.res = "NotFound" /\ UNCHANGED state_vars)]_vars

\* C6, as claimed: close of an id that is not a key of tabs fails with
\* NotFound.
C6_CloseUnknownNotFound ==
    [][(last'.op \in CloseOps /\ last'.id \notin DOMAIN tabs) =>
        last'.res = "NotFound"]_vars

\* C6, amended: close of an id that is not a key of tabs returns success and
\* leaves tabs, active_tab, content_bounds and chrome_y_offset unchanged.
C6_CloseUnknownIsNoOp ==
    [][(last'.op \in CloseOps /\ last'.id \notin DOMAIN tabs) =>
        (last'.res = "ok" /\ UNCHANGED state_vars)]_vars

\* an unknown id was closed while a tab was active
C6_Witness ==
    /\ last.op = "close_tab" /\ ~last.known /\ last.res = "ok"
    /\ last.active # NoTab /\ active_tab = last.active

\* C7 (I4): whenever the lock is free every key of tabs has a live webview.
C7_EveryTabHasSurface == DOMAIN tabs \subseteq DOMAIN webviews

\* C8 (I3, P6): no call other than report_bounds (set_content_bounds)
\* changes chrome_y_offset or content_bounds; a resize leaves both alone.
C8_OffsetLatched ==
    [][last'.op # "set_content_bounds" =>
        UNCHANGED <<chrome_y_offset, content_bounds>>]_vars

\* the offset 40 reported in an 800 high window is still there after the
\* window shrank to a height of 40
C8_Witness ==
    /\ last.op = "resized" /\ inner_size = <<400, 40>> /\ scale = 1
    /\ content_bounds = <<Bounds1>> /\ chrome_y_offset = 40 * Den

\* C9 (P5): a second report_bounds with the same bounds, the window
\* unchanged, leaves chrome_y_offset, content_bounds and the placement of
\* every surface as the first call left them.
C9_ReportBoundsIdempotent ==
    [][(/\ last.op = "set_content_bounds" /\ last.res = "ok"
        /\ last'.op = "set_content_bounds" /\ last'.res = "ok"
        /\ content_bounds' = content_bounds) =>
        (chrome_y_offset' = chrome_y_offset /\ webviews' = webviews)]_vars

\* a report latched a positive offset and placed the active surface
C9_Witness ==
    /\ last.op = "set_content_bounds" /\ last.res = "ok"
    /\ chrome_y_offset > 0
    /\ active_tab \in DOMAIN webviews
    /\ webviews[active_tab].rect = resolved

\* C10 (4.1): the Resolver yields left = max(0, round(L*s)),
\* top = max(0, round((T + chrome_y_offset)*s)), width = max(0, W - left),
\* height = max(0, H - top), with (L, T) = (520, 56) before any report;
\* width and height are never negative and a 1000x800 window at scale 1
\* with no report resolves to (520, 56, 480, 744).
C10_ResolverFormula ==
    LET L == IF content_bounds = NoBounds THEN 520 * Den ELSE content_bounds[1].left
        T == IF content_bounds = NoBounds THEN 56 * Den ELSE content_bounds[1].top
        left == Max(0, Round(L * scale))
        top == Max(0, Round((T + chrome_y_offset) * scale))
    IN
    /\ resolved = [x |-> left, y |-> top,
                   w |-> Max(0, inner_size[1] - left),
                   h |-> Max(0, inner_size[2] - top)]
    /\ resolved.w >= 0 /\ resolved.h >= 0
    /\ (inner_size = <<1000, 800>> /\ scale = 1 /\ content_bounds = NoBounds)
            => resolved = [x |-> 520, y |-> 56, w |-> 480, h |-> 744]
    /\ (last.op \in {"resized", "reposition_tabs"} /\ last.res = "ok"
            /\ active_tab \in DOMAIN webviews)
            => webviews[active_tab].rect = resolved

\* a resize to a window narrower than the fallback left edge placed the
\* active surface with width 0
C10_Witness ==
    /\ last.op = "resized" /\ last.res = "ok" /\ inner_size = <<400, 40>>
    /\ active_tab \in DOMAIN webviews
    /\ webviews[active_tab].rect.w = 0
    /\ webviews[active_tab].rect.x > inner_size[1]

\* C11 (report_bounds): a successful set_content_bounds(b) sets
\* chrome_y_offset to max(0, H_logical - (b.top + b.height)), which is never
\* negative, sets content_bounds to b, and leaves every surface where a
\* reposition with the new values puts it; in an 800 high window at scale 1,
\* top = 60 and height = 700 give the offset 40 and the placement top
\* round((60 + 40) * scale).
C11_ReportBoundsLatchesOffset ==
    [][(last'.op = "set_content_bounds" /\ last'.res = "ok") =>
        /\ content_bounds' # NoBounds
        /\ \A b \in BoundsSet \cup {Bounds0} :
                set_content_bounds(b, "none") => content_bounds' = <<b>>
        /\ chrome_y_offset' = Max(0, (inner_size[2] * Den) \div scale
                - (content_bounds'[1].top + content_bounds'[1].height))
        /\ chrome_y_offset' >= 0
        /\ webviews' = reposition_webviews(webviews, active_tab, content_bounds',
                            chrome_y_offset', inner_size, scale, "none")
        /\ (inner_size[2] = 800 /\ scale = 1 /\ content_bounds' = <<Bounds1>>) =>
                /\ chrome_y_offset' = 40 * Den
                /\ active_tab \in DOMAIN webviews =>
                        webviews'[active_tab].rect.y = Round((60 + 40) * Den * scale)
        /\ UNCHANGED <<tabs, active_tab, inner_size, scale>>]_vars

\* bounds taller than the window were reported with a surface active: the
\* offset is clamped to 0 and the surface sits at the reported top
C11_Witness ==
    /\ last.op = "set_content_bounds" /\ last.res = "ok"
    /\ content_bounds = <<Bounds2>> /\ chrome_y_offset = 0
    /\ inner_size = <<1000, 800>> /\ scale = 1
    /\ active_tab \in DOMAIN webviews
    /\ webviews[active_tab].rect = [x |-> 0, y |-> 1, w |-> 1000, h |-> 799]

\* C12: with the host window unavailable, create, switch, reposition and
\* report_bounds each return WindowMissing; none returns success after
\* skipping the placement.
C12_WindowMissingIsFatal ==
    [][/\ \A u \in Urls : create_tab(u, "no_window") => last'.res = "WindowMissing"
       /\ \A i \in 1..MaxTabs : switch_tab(i, FALSE) => last'.res = "WindowMissing"
       /\ reposition_tabs("no_window") => last'.res = "WindowMissing"
       /\ \A b \in BoundsSet \cup {Bounds0} :
            set_content_bounds(b, "no_window") => last'.res = "WindowMissing"]_vars

\* C13: a failing set_bounds on the new surface does not abort create: the
\* call still inserts the tab record, makes it active and returns success.
C13_BestEffortNeverAborts ==
    [][\A u \in Urls : create_tab(u, "apply_bounds") =>
        /\ last'.res = "ok"
        /\ active_tab' \in DOMAIN tabs' \ DOMAIN tabs]_vars

\* the sidecar_send calls, those that have drawn their id, and those that
\* returned Ok(id)
SendCalls == {c \in SidecarCalls : calls[c].cmd = "sidecar_send"}
AssignedCalls == {c \in SendCalls : calls[c].pc \in {"emit", "done"}}
ReturnedCalls == {c \in SendCalls : calls[c].res = "Ok"}
RequestEvents == {k \in 1..Len(events) : events[k].event = "sidecar-request"}

\* the k-th sidecar_send to take the lock draws the id k: the first id is 1
\* and the ids increase strictly in lock-acquisition order
IdsInLockOrder ==
    /\ \A k \in 1..Len(lock_order) :
            lock_order[k] \in AssignedCalls => calls[lock_order[k]].id = k
    /\ \A k \in 1..Len(lock_order) :
            lock_order[k] \notin AssignedCalls =>
                (k = Len(lock_order) /\ sidecar_lock = lock_order[k])
    /\ sidecar.next_id = Cardinality(AssignedCalls) + 1

\* every sidecar-request event carries the id returned by the one call that
\* emitted it, and every returned id was emitted once
EventIdIsReturnedId ==
    /\ \A k \in RequestEvents :
            Cardinality({c \in ReturnedCalls : calls[c].id = events[k].id}) = 1
    /\ \A c \in ReturnedCalls :
            Cardinality({k \in RequestEvents : events[k].id = calls[c].id}) = 1

\* C14, as claimed: across any interleaving of sidecar_send calls the ids
\* are 1, 2, 3, ... in lock-acquisition order, every id drawn is returned
\* to exactly one call, and the id in the emitted sidecar-request event is
\* the id returned.
C14_EachIdReturnedOnce ==
    /\ IdsInLockOrder
    /\ \A c \in SendCalls : calls[c].pc = "done" =>
            Cardinality({d \in ReturnedCalls : calls[d].id = calls[c].id}) = 1
    /\ EventIdIsReturnedId

\* C14, amended: the ids are 1, 2, 3, ... in lock-acquisition order, no id
\* is returned to two calls, the id in the emitted sidecar-request event is
\* the id returned, and a call whose emit fails returns an error while its
\* id stays consumed: no call returns it and no event carries it.
C14_IdsUniqueInLockOrder ==
    /\ IdsInLockOrder
    /\ \A c, d \in AssignedCalls : calls[c].id = calls[d].id => c = d
    /\ \A c \in SendCalls : calls[c].pc = "done" =>
            IF calls[c].res = "Ok"
            THEN Cardinality({d \in ReturnedCalls : calls[d].id = calls[c].id}) = 1
            ELSE /\ calls[c].res = "Err"
                 /\ \A d \in ReturnedCalls : calls[d].id # calls[c].id
                 /\ \A k \in RequestEvents : events[k].id # calls[c].id
    /\ EventIdIsReturnedId

\* three sends took the lock in turn; the second emitted before the first
\* and the emit of the third failed
C14_Witness ==
    /\ Len(lock_order) = 3
    /\ \A c \in SidecarCalls : calls[c].cmd = "sidecar_send" /\ calls[c].pc = "done"
    /\ Len(events) = 2 /\ events[1].id = 2 /\ events[2].id = 1
    /\ calls[lock_order[3]].res = "Err" /\ calls[lock_order[3]].id = 3

\* the threads between lock() and the drop of their guard
InCriticalSection == {t \in Threads : thread_pc[t] # "idle"}

CallbackOps == {"on_page_load", "on_navigation", "on_new_window"}

\* the operations that take no TabState
UnlockedOps == {"run_js_in_tab", "ipc_run_js_in_tab"}

\* C15: the TabState is read and written only by the thread that holds the
\* one lock; no two entry points (commands, resize handler) are in their
\* critical sections at once; a thread that has returned holds no lock;
\* watcher steps and surface callbacks leave the TabState unchanged.
C15_RegistryOnlyUnderLock ==
    /\ [](/\ Cardinality(InCriticalSection) <= 1
          /\ \A t \in Threads : (thread_pc[t] = "idle") <=> (registry_lock # t)
          /\ registry_lock \in Threads \cup {NoThread})
    /\ [][/\ (state_vars' # state_vars \/
                (last' # last /\ last'.op \notin CallbackOps \cup UnlockedOps))
                => \E t \in Threads : /\ registry_lock = t
                                      /\ thread_pc[t] = "locked"
                                      /\ thread_pc'[t] = "done"
          /\ (watcher_vars' # watcher_vars /\ last' = last) => UNCHANGED state_vars
          /\ last'.op \in CallbackOps => UNCHANGED state_vars]_vars

\* a callback of a watched surface has emitted its event while one thread
\* held the lock and the other was outside its critical section
C15_Witness ==
    /\ registry_lock = 1 /\ thread_pc[1] = "locked" /\ thread_pc[2] = "idle"
    /\ last.op = "on_new_window" /\ ui_events # <<>>
    /\ last.id \in DOMAIN watchers /\ last.id \in DOMAIN tabs

\* C16: with the watcher task scheduled fairly, a watcher whose surface can
\* no longer be resolved eventually terminates; no watcher terminates, or
\* is terminated, while its surface can still be resolved.
C16_WatcherTerminates ==
    /\ \A l \in WatchLabels :
            (l \in DOMAIN watchers /\ ~resolvable(l))
                ~> (l \in DOMAIN watchers /\ watchers[l].pc = "terminated")
    /\ [](\A l \in DOMAIN watchers : watchers[l].pc = "terminated" => ~resolvable(l))
    /\ [][\A l \in DOMAIN watchers :
            (watchers[l].pc = "running" /\ watchers'[l].pc = "terminated")
                => ~resolvable(l)]_vars

\* the watcher of a closed tab, which had seen the inspector open, has
\* terminated while the watcher of "main" keeps running
C16_Witness ==
    /\ \E l \in DOMAIN watchers :
            watchers[l].pc = "terminated" /\ watchers[l].was_open /\ ~resolvable(l)
    /\ watchers[MainLabel].pc = "running" /\ watchers[MainLabel].was_open
    /\ last.op = "close_tab"

\* C17: after close(id) of the active tab with other tabs remaining, the
\* surface of the newly elected active tab is shown, focused and placed at
\* the Resolver's current placement.
C17_ElectedSurfacePlaced ==
    [][(last'.op \in CloseOps /\ last'.id = active_tab /\ DOMAIN tabs' # {}) =>
        /\ active_tab' \in DOMAIN webviews'
        /\ webviews'[active_tab'].visible
        /\ focused' = active_tab'
        /\ webviews'[active_tab'].rect = resolved']_vars

SwitchOps == {"switch_tab", "ipc_switch_tab"}

\* C18: after a successful switch(id) with id a key of tabs, active_tab is
\* id, the surface of id is shown at the Resolver's current placement, the
\* surface of every other tab is hidden at the off-screen sentinel with zero
\* size, and tabs, content_bounds and chrome_y_offset are unchanged.
C18_SwitchShowsOnlyTarget ==
    [][(last'.op \in SwitchOps /\ last'.res = "ok" /\ last'.id \in DOMAIN tabs) =>
        /\ active_tab' = last'.id
        /\ last'.id \in DOMAIN webviews'
        /\ webviews'[last'.id] = [rect |-> resolved', visible |-> TRUE]
        /\ \A i \in (DOMAIN tabs' \cap DOMAIN webviews') \ {last'.id} :
                webviews'[i] = [rect |-> offscreen, visible |-> FALSE]
        /\ UNCHANGED <<tabs, content_bounds, chrome_y_offset>>]_vars

NavigateOps == {"navigate_tab", "ipc_navigate_tab"}

\* C19: navigate(id, url) with id a key of tabs fails with InvalidUrl when
\* url does not parse, whether or not the surface can be resolved;
\* otherwise the stored url of the tab becomes url and neither another tab
\* record nor active_tab changes.
C19_NavigateValidatesUrl ==
    [][(last'.op \in NavigateOps /\ last'.id \in DOMAIN tabs) =>
        IF ~UrlParses(last'.url) THEN last'.res = "InvalidUrl"
        ELSE /\ DOMAIN tabs' = DOMAIN tabs
             /\ tabs'[last'.id].url = last'.url
             /\ \A i \in DOMAIN tabs \ {last'.id} : tabs'[i] = tabs[i]
             /\ active_tab' = active_tab]_vars

\* C20: hide_all() leaves every surface hidden and at the off-screen
\* sentinel with zero size, and leaves active_tab, tabs, content_bounds and
\* chrome_y_offset unchanged.
C20_HideAllParksEverySurface ==
    [][last'.op = "hide_all_tabs" =>
        /\ \A l \in DOMAIN webviews' :
                webviews'[l] = [rect |-> offscreen, visible |-> FALSE]
        /\ DOMAIN webviews' = DOMAIN webviews
        /\ UNCHANGED state_vars]_vars

RepositionOps == {"reposition_tabs", "resized"}

\* C21: reposition(), also run on every window resize, sets the placement
\* of the active surface to the Resolver's output for the current window
\* size and the stored content_bounds and chrome_y_offset and changes
\* nothing else: every other surface keeps its placement and visibility and
\* the registry state is unchanged; with no active tab it is a successful
\* no-op.
C21_RepositionOnlyActive ==
    [][last'.op \in RepositionOps =>
        /\ UNCHANGED <<state_vars, focused>>
        /\ DOMAIN webviews' = DOMAIN webviews
        /\ \A l \in DOMAIN webviews \ {active_tab} : webviews'[l] = webviews[l]
        /\ active_tab = NoTab => (last'.res = "ok" /\ webviews' = webviews)
        /\ (last'.res = "ok" /\ active_tab \in DOMAIN webviews) =>
                webviews'[active_tab] = [webviews[active_tab] EXCEPT !.rect = resolved']
        /\ last'.res # "ok" => webviews' = webviews]_vars

\* a reposition has put the parked active surface back at the Resolver's
\* placement while the surface of the other tab stayed at the sentinel
C21_Witness ==
    /\ last.op = "reposition_tabs" /\ last.res = "ok"
    /\ active_tab \in DOMAIN webviews
    /\ webviews[active_tab] = [rect |-> resolved, visible |-> FALSE]
    /\ \E l \in (DOMAIN tabs \cap DOMAIN webviews) \ {active_tab} :
            webviews[l].rect = offscreen

\* a url that create must reject: neither empty nor "about:blank", and not
\* parseable
InvalidCreateUrl(u) == u \notin {"", "about:blank"} /\ ~UrlParses(u)

\* C22: create(url) fails with InvalidUrl when url is neither empty nor
\* "about:blank" and does not parse, with WindowMissing when the host
\* window is unavailable, and with SurfaceCreateFailed when the platform
\* rejects the creation of the surface; in each of these cases no tab
\* record is inserted and active_tab is unchanged.
C22_CreateFailures ==
    [][/\ (last'.op \in CreateOps /\ InvalidCreateUrl(last'.url)) =>
                last'.res \in {"InvalidUrl", "WindowMissing", "LayoutError"}
       /\ \A u \in Urls : (create_tab(u, "none") /\ InvalidCreateUrl(u)) =>
                last'.res = "InvalidUrl"
       /\ \A u \in Urls : create_tab(u, "no_window") => last'.res = "WindowMissing"
       /\ \A u \in Urls : (create_tab(u, "add_child") /\ ~InvalidCreateUrl(u)) =>
                last'.res = "SurfaceCreateFailed"
       /\ (last'.op \in CreateOps
            /\ last'.res \in {"InvalidUrl", "WindowMissing", "SurfaceCreateFailed"}) =>
                UNCHANGED <<tabs, active_tab>>]_vars

\* C23: for every surface created by create, every native new-window
\* request is denied and produces exactly one tab-open-request event with
\* reason "new-window" carrying the tab id of that surface, and every
\* in-page navigation request is allowed and produces exactly one
\* tab-navigated event carrying that tab id; neither callback changes the
\* registry state.
C23_CallbacksReportOnce ==
    [][\A id \in 1..MaxLockTabs, u \in PageUrls :
        /\ on_new_window(id, u) =>
            /\ last'.res = "Deny"
            /\ Len(ui_events') = 1
            /\ ui_events'[1].event = "tab-open-request"
            /\ ui_events'[1].reason = "new-window"
            /\ ui_events'[1].tabId = id
            /\ UNCHANGED state_vars
        /\ on_navigation(id, u) =>
            /\ last'.res = "allow"
            /\ Len(ui_events') = 1
            /\ ui_events'[1].event = "tab-navigated"
            /\ ui_events'[1].tabId = id
            /\ UNCHANGED state_vars]_vars

\* a navigation of a registered tab's surface to the bundled blank page has
\* been allowed and reported once, under that tab's id
C23_Witness ==
    /\ last.op = "on_navigation" /\ last.res = "allow"
    /\ last.id \in DOMAIN webviews /\ last.id \in DOMAIN tabs
    /\ ui_events = <<UiEvent("tab-navigated", last.id, "about:blank", "")>>
    /\ last.url = "tauri://localhost/blank.html"

\* the step moves the inspector of l from the window of its surface into a
\* window of its own: the effect of detach_inspector
DetachIssued(l) ==
    /\ l \in DOMAIN inspector /\ l \in DOMAIN inspector'
    /\ inspector[l] = "docked" /\ inspector'[l] = "detached"

\* C24: a watcher issues the detach command exactly when a poll observes
\* the inspector open and the previous poll of the same watcher observed it
\* closed (initially closed).  Every poll records its observation for the
\* next one, so a poll that detaches is never followed by another one of
\* the same watcher that detaches, and no detach is issued while the
\* inspector stays open or stays closed.  An inspector that a watcher has
\* not yet seen open is still docked, so every issued detach is visible.
C24_DetachOnRisingEdge ==
    /\ [](\A l \in DOMAIN watchers :
            (watchers[l].pc = "running" /\ is_devtools_open(l) /\ ~watchers[l].was_open)
                => inspector[l] = "docked")
    /\ [][\A l \in WatchLabels :
            /\ watcher_poll(l) =>
                /\ DetachIssued(l) <=>
                        (resolvable(l) /\ is_devtools_open(l) /\ ~watchers[l].was_open)
                /\ resolvable(l) => watchers'[l].was_open = is_devtools_open(l)
                /\ DetachIssued(l) => watchers'[l].was_open
            /\ (DetachIssued(l) /\ l \in DOMAIN watchers) => watcher_poll(l)]_vars

\* the watcher of a tab's surface has detached that surface's inspector on
\* a rising edge, while the inspector of "main", closed and opened again
\* between two polls of its watcher, stays docked
C24_Witness ==
    /\ watchers[MainLabel].pc = "running" /\ watchers[MainLabel].was_open
    /\ inspector[MainLabel] = "docked"
    /\ \E l \in DOMAIN watchers \ {MainLabel} :
            /\ watchers[l].was_open /\ watchers[l].pc = "running"
            /\ inspector[l] = "detached"

\* C25: the link-intercept handler suppresses the default navigation of a
\* click if and only if it emitted a tab-open-request event with reason
\* "shift-click" for that click; when the notification channel is
\* unavailable, or the click lacks the new-tab modifier, is not the primary
\* button, or is not on an anchor with a resolvable href, no event is
\* emitted and the click proceeds unmodified.
C25_SuppressIffEmitted ==
    [][handler =>
        LET ev == click.event
            emitted == \E i \in 1..Len(ui_events') :
                            /\ ui_events'[i].event = "tab-open-request"
                            /\ ui_events'[i].reason = "shift-click"
                            /\ ui_events'[i].tabId = click.tab
        IN  /\ click'.prevented <=> emitted
            /\ (\/ click.channel # "available"
                \/ ~(ev.shiftKey \/ (click.isMac /\ ev.metaKey))
                \/ ev.button # 0
                \/ ev.target # "anchor"
                \/ resolveUrl(ev.href) = Null) =>
                    /\ ui_events' = <<>>
                    /\ ~click'.prevented /\ ~click'.stopped
                    /\ click'.event = ev]_vars

\* a meta-click without shift on a relative link of a page that looks like
\* a Mac has been reported with the resolved url and suppressed
C25_Witness ==
    /\ click.phase = "handled" /\ click.prevented /\ click.stopped
    /\ click.isMac /\ click.event.metaKey /\ ~click.event.shiftKey
    /\ click.tab \in DOMAIN webviews
    /\ ui_events = <<UiEvent("tab-open-request", click.tab,
                             "https://example.com/next", "shift-click")>>

\* C26: a navigate(id, url) call that returns an error (InvalidUrl or a
\* failed navigation of the surface) leaves the stored url of the tab equal
\* to its value before the call.
C26_FailedNavigateKeepsUrl ==
    [][(last'.op \in NavigateOps /\ last'.id \in DOMAIN tabs /\ last'.res # "ok") =>
        /\ last'.id \in DOMAIN tabs'
        /\ tabs'[last'.id].url = tabs[last'.id].url]_vars

\* C27: a create(url) call that returns an error has no effect: tabs,
\* active_tab, and the placement and visibility of every existing surface,
\* in particular of the previously active one, are the same as before the
\* call.
C27_FailedCreateHasNoEffect ==
    [][(last'.op \in CreateOps /\ last'.res # "ok") =>
        /\ UNCHANGED <<tabs, active_tab>>
        /\ \A l \in DOMAIN webviews :
                l \in DOMAIN webviews' /\ webviews'[l] = webviews[l]]_vars

\* C28: no orphan surfaces: after any sequence of lifecycle operations,
\* including failing ones, every live content surface labelled tab-<id>
\* has id as a key of tabs.
C28_NoOrphanSurface == \A l \in DOMAIN webviews : l \in DOMAIN tabs

\* a window resize event and a report_bounds call
PlacementOps == {"resized", "set_content_bounds"}

\* C29: after hide_all(), no surface is placed inside the visible window
\* rectangle until the next create or switch: a window resize event or a
\* report_bounds call that arrives right after hide_all moves no surface
\* back from the off-screen sentinel.
C29_HiddenStaysParked ==
    [][(last.op = "hide_all_tabs" /\ last'.op \in PlacementOps) =>
        \A l \in DOMAIN webviews :
            webviews[l].rect = offscreen =>
                (l \in DOMAIN webviews' /\ webviews'[l].rect = offscreen)]_vars

\* C30: close(id) of a tab that is not the active tab leaves active_tab
\* unchanged, removes only the key id from tabs, and changes the placement
\* and visibility of no other surface.
C30_CloseInactiveTouchesNothingElse ==
    [][(last'.op \in CloseOps /\ last'.id \in DOMAIN tabs /\ last'.id # active_tab) =>
        /\ last'.res = "ok"
        /\ active_tab' = active_tab
        /\ DOMAIN tabs' = DOMAIN tabs \ {last'.id}
        /\ \A i \in DOMAIN tabs' : tabs'[i] = tabs[i]
        /\ \A l \in DOMAIN webviews \ {last'.id} :
                l \in DOMAIN webviews' /\ webviews'[l] = webviews[l]]_vars

\* the parked tab has been closed by tabs::close_tab: its surface is gone
\* and the active tab is still shown at the Resolver's placement
C30_Witness ==
    /\ last.op = "close_tab" /\ last.id # active_tab
    /\ last.known
    /\ last.id \notin DOMAIN tabs /\ last.id \notin DOMAIN webviews
    /\ active_tab \in DOMAIN tabs /\ active_tab = last.active
    /\ active_tab \in DOMAIN webviews
    /\ webviews[active_tab] = [rect |-> resolved, visible |-> TRUE]

\* the start_sidecar calls, and the "ready" events emitted so far
StartCalls == {c \in SidecarCalls : calls[c].cmd = "start_sidecar"}
ReadyEvents == {i \in 1..Len(events) : events[i].event = "sidecar-status"}

\* C31: across any number of start_sidecar calls, sequential or
\* concurrent, the sidecar-status "ready" event is emitted at most once
\* (counting the one call that is about to emit it) and started never
\* returns from true to false; every call that takes the lock after the
\* first returns success without emitting, and every returned call
\* returned success.
C31_StartSidecarOnce ==
    /\ [](Cardinality(ReadyEvents)
            + Cardinality({c \in StartCalls : calls[c].pc = "emit"}) <= 1)
    /\ [](\A c \in StartCalls : calls[c].pc = "done" => calls[c].res = "Ok")
    /\ [][sidecar.started => sidecar'.started]_vars
    /\ [][\A c \in SidecarCalls :
            (start_sidecar_mark(c) /\ sidecar.started) =>
                /\ calls'[c].pc = "done" /\ calls'[c].res = "Ok"
                /\ events' = events]_vars

\* every call was a start_sidecar, all of them have returned success, and
\* exactly one "ready" event is out
C31_Witness ==
    /\ StartCalls = SidecarCalls
    /\ \A c \in StartCalls : calls[c].pc = "done" /\ calls[c].res = "Ok"
    /\ Cardinality(ReadyEvents) = 1
    /\ sidecar.started /\ sidecar.next_id = 1
====
